---- MODULE Spec2Model ----
(***************************************************************************)
(* A model of vsphone_monitor.py: the monitoring loop of VSPhoneMonitor    *)
(* (one main thread, one worker per account in a ThreadPoolExecutor), the  *)
(* DeviceController calls each worker issues over ADB, the shared stats    *)
(* dictionary and the statistics file.                                     *)
(***************************************************************************)
EXTENDS Integers, Sequences, FiniteSets, TLC

VARIABLES
    config_file,\* what account.json is when the process starts
    config,     \* self.accounts: the accounts of account.json, in order
    main,       \* where the main thread is in monitor_loop
    stats,      \* self.stats, the in-memory statistics dictionary
    file,       \* the content of logs/monitor_stats.json
    wpc,        \* per account: where its worker is in check_account_devices
    di,         \* per account: index of the device being handled
    ai,         \* per account: index of the app being handled
    api,        \* per account: what api.get_devices() returned
    tmp,        \* per account: the value read by  stats['total_restarts'] += 1
    calls,      \* per account: the DeviceController calls of this tick, in order
    ticks,      \* number of passes of the while loop started so far
    tr0,        \* stats['total_restarts'] when the current tick started
    failures,   \* per account: a launch of the account reported failure in an earlier tick
    clock       \* the UTC clock, in seconds, that a request signer reads

vars == <<clock, config_file, config, main, stats, file, wpc, di, ai, api, tmp, calls, ticks, tr0, failures>>

\* Python's None
None == "None"

\* Number of passes of the monitoring loop explored.
MaxTicks == 2

\* Seconds of the clock explored while requests are signed.
MaxClock == 2

(***************************************************************************)
(* Strings that the code inspects are sequences of characters; for these   *)
(* None and "" (both false in a condition) are the empty sequence.         *)
(***************************************************************************)
HTTP == <<"h", "t", "t", "p">>

\* str.startswith
StartsWith(s, p) == Len(s) >= Len(p) /\ SubSeq(s, 1, Len(p)) = p

RECURSIVE LStrip(_)
LStrip(s) == IF s # <<>> /\ Head(s) = " " THEN LStrip(Tail(s)) ELSE s

RECURSIVE RStrip(_)
RStrip(s) == IF s # <<>> /\ s[Len(s)] = " " THEN RStrip(SubSeq(s, 1, Len(s) - 1)) ELSE s

\* faulty variant: the reference is not stripped
NoStrip(s) == s

\* str.strip
Strip(s) == RStrip(LStrip(s))

\* faulty variant: the template carries no scheme
TemplateHeadBare == <<"www.roblox.com/share?code=">>

\* the f-string "https://www.roblox.com/share?code={url_or_code}&type=Server"
TemplateHead == <<"h", "t", "t", "p", "s", ":", "/", "/", "www.roblox.com/share?code=">>
TemplateTail == <<"&type=Server">>

\* DeviceController.build_roblox_url
build_roblox_url(url_or_code) ==
    IF url_or_code = <<>> THEN <<>>
    ELSE IF StartsWith(Strip(url_or_code), HTTP) THEN Strip(url_or_code)
    ELSE TemplateHead \o Strip(url_or_code) \o TemplateTail

(***************************************************************************)
(* account.json.  An app entry is {package, roblox_url | share_code}, a    *)
(* device entry {device_id, device_name, device_ip, apps}, an account      *)
(* {name, devices}.  A key that is absent reads as None.                   *)
(***************************************************************************)
App(package, url_or_code) == [package |-> package, url_or_code |-> url_or_code]

Device(id, name, ip, apps) ==
    [device_id |-> id, device_name |-> name, device_ip |-> ip, apps |-> apps]

ShareCode == <<"a", "b">>
ShareUrl == <<"h", "t", "t", "p", ":", "x">>

\* two accounts, checked by two concurrent workers; their devices are configured
\* by address alone
TwoAccounts ==
    << [name |-> "A",
        devices |-> << Device(None, None, "ip1", << App("com.roblox.client", ShareCode) >>) >>],
       [name |-> "B",
        devices |-> << Device(None, None, "ip2", << App("com.roblox.client", ShareUrl) >>) >>] >>

\* one account with three devices: the first with two apps, the second without
\* an address
OneAccount ==
    << [name |-> "A",
        devices |-> << Device("p1", "n1", "ip1",
                              << App("com.roblox.client", ShareCode),
                                 App("com.roblox.vng", ShareUrl) >>),
                       Device("p2", "n2", None, << App("com.roblox.client", ShareCode) >>),
                       Device("p3", "n3", "ip3", << App("com.roblox.client", ShareUrl) >>) >>] >>

Configs == {TwoAccounts, OneAccount}

\* an account.json without the 'accounts' key: self.config.get('accounts', [])
NoAccounts == <<>>

\* an account without the 'devices' key: acc_config.get('devices', [])
NoDevices == << [name |-> "A", devices |-> <<>>] >>

\* what account.json can be when the process starts: complete; a JSON object in
\* which keys read with a default are absent; no file; not JSON; JSON that is not
\* an object, or an account without 'name', 'api_key' or 'api_secret'
ConfigFiles == {"complete", "incomplete", "missing", "unparsable", "malformed"}

\* the error VSPhoneMonitor.__init__ raises on the file, None when it returns
init_error(cf) ==
    CASE cf = "missing" -> "FileNotFoundError"
      [] cf = "unparsable" -> "JSONDecodeError"
      [] cf = "malformed" -> "KeyError"
      [] OTHER -> None

\* self.accounts after __init__ has read the file
ConfigsOf(cf) ==
    CASE cf = "complete" -> Configs
      [] cf = "incomplete" -> {NoAccounts, NoDevices}
      [] OTHER -> {NoAccounts}

Accounts == 1..Len(config)

(***************************************************************************)
(* VSPhoneAPI.get_devices.  Each HTTP attempt ends in a failure (a status  *)
(* other than 200, a timeout, a body that is not JSON) or in the JSON body *)
(* of a 200 response.  A body is abstracted to its 'data' member: absent,  *)
(* null, an object whose 'list' is a sequence of device records, or an     *)
(* object whose 'list' holds entries that are not objects ("items").       *)
(***************************************************************************)
Rec(id, name, online, status) ==
    [phoneId |-> id, phoneName |-> name, online |-> online, status |-> status]

\* the records the service may return about a configured device: online, offline,
\* and an offline record of another phone that carries the same name
RecordsOf(dev) ==
    IF dev.device_id = None /\ dev.device_name = None THEN {}
    ELSE { Rec(dev.device_id, dev.device_name, 1, None),
           Rec(dev.device_id, dev.device_name, 0, None),
           Rec("px", dev.device_name, 0, None) }

FirstDev(acc) == acc.devices[1]
LastDev(acc) == acc.devices[Len(acc.devices)]

\* the device lists of the responses explored for an account
ApiLists(acc) ==
    IF acc.devices = <<>> THEN {<<>>, <<Rec("px", "nx", 1, None)>>} ELSE
    {<<>>}
    \cup { <<r>> : r \in RecordsOf(FirstDev(acc)) }
    \cup (IF RecordsOf(FirstDev(acc)) = {} THEN {}
          ELSE { <<Rec("px", FirstDev(acc).device_name, 0, None),
                   Rec(FirstDev(acc).device_id, None, 0, "online")>>,
                 <<Rec(FirstDev(acc).device_id, FirstDev(acc).device_name, 0, None),
                   Rec(LastDev(acc).device_id, LastDev(acc).device_name, 1, None)>>,
                 <<Rec(LastDev(acc).device_id, LastDev(acc).device_name, 0, None),
                   Rec(FirstDev(acc).device_id, FirstDev(acc).device_name, 1, None)>> })

\* the JSON body of a response, or the result of get_devices()
Json(kind, list) == [kind |-> kind, list |-> list]

\* get_devices() returning None
NoneResponse == Json("None", <<>>)

ApiBodies(acc) ==
    {Json("absent", <<>>), Json("null", <<>>), Json("items", <<>>)}
    \cup { Json("list", l) : l \in ApiLists(acc) }

\* what one HTTP attempt ends in: a status (or a timeout) and, for a 200, a body
Http(status, json) == [status |-> status, json |-> json]

HttpOutcomes(acc) ==
    { Http(st, Json("not_json", <<>>)) : st \in {"200", "405", "401", "500", "timeout"} }
    \cup { Http("200", b) : b \in ApiBodies(acc) }

\* one attempt of get_devices gives a result: status 200, response.json() parses and
\* len(data.get('data', {}).get('list', [])) in the debug line does not raise (it
\* raises AttributeError on a null 'data'); any error goes on to the next method
AttemptOk(r) == r.status = "200" /\ r.json.kind \notin {"not_json", "null"}

\* get_devices: POST with {}, then GET, then POST with "", the first 200 wins
get_devices(post1, get2, post3) ==
    IF AttemptOk(post1) THEN post1.json
    ELSE IF AttemptOk(get2) THEN get2.json
    ELSE IF AttemptOk(post3) THEN post3.json
    ELSE NoneResponse

(***************************************************************************)
(* Request signing.  SHA-256 and HMAC-SHA256 are kept symbolic: a digest   *)
(* is the record of what was digested, so distinct inputs give distinct    *)
(* digests.  A body is written as its serialisation: json.dumps({}) and    *)
(* the body requests sends for json={} are both "{}".                      *)
(***************************************************************************)
Sha256(x) == [sha256 |-> x]
Hmac(key, msg) == [key |-> key, msg |-> msg]

\* self.host
Host == "api.vsphone.com"

\* the URIs of get_devices and get_device_detail
ListUri == "/api/v1/phone/list"
DetailUri == "/api/v1/phone/detail"

\* VSPhoneAPI._sign_request(method, uri, query_params, body) of vsphone_monitor.py,
\* called when the clock reads t: the headers it returns
sign_request(method, uri, query_params, body, t) ==
    LET body_str == IF method = "GET" \/ body = "" THEN "" ELSE body
        content_sha256 == Sha256(body_str)
        signed_headers == "content-type;host;x-content-sha256;x-date"
        canonical_request ==
            [method |-> method, uri |-> uri, query |-> query_params,
             content_type |-> "application/json", host |-> Host,
             x_content_sha256 |-> content_sha256, x_date |-> t,
             signed_headers |-> signed_headers, payload |-> content_sha256]
        string_to_sign ==
            [algorithm |-> "SDK-HMAC-SHA256", x_date |-> t,
             scope |-> "vsphone/sdk_request", request |-> Sha256(canonical_request)]
        signature == Hmac("api_secret", string_to_sign)
    IN  ("content-type" :> "application/json")
        @@ ("host" :> Host)
        @@ ("x-content-sha256" :> content_sha256)
        @@ ("x-date" :> t)
        @@ ("authorization" :>
               [credential |-> "api_key", signed_headers |-> signed_headers,
                signature |-> signature])

\* vsphone_simple.py: the headers _make_request sends for the body at time t, with
\* the signature of _sign_request(x_date, body_str); the Host header is the one
\* the HTTP library adds for the URL
make_request_headers(body_str, t) ==
    LET x_content_sha256 == Sha256(body_str)
        signed_headers == "content-type;host;x-content-sha256;x-date"
        canonical_request ==
            [host |-> Host, x_date |-> t,
             content_type |-> "application/json;charset=UTF-8",
             signed_headers |-> signed_headers, x_content_sha256 |-> x_content_sha256]
        string_to_sign ==
            [algorithm |-> "HMAC-SHA256", x_date |-> t,
             scope |-> "armcloud-paas/request", request |-> Sha256(canonical_request)]
        signature == Hmac("secret_key", string_to_sign)
    IN  ("content-type" :> "application/json;charset=UTF-8")
        @@ ("x-date" :> t)
        @@ ("x-host" :> Host)
        @@ ("host" :> Host)
        @@ ("authorization" :>
               [credential |-> "access_key", signed_headers |-> signed_headers,
                signature |-> signature])

\* a request as it is sent: its headers, its body, and the time it is sent at
Wire(headers, body, t) == [headers |-> headers, body |-> body, at |-> t]

\* the application-level status a JSON body carries in its 'code' member; a
\* response without a JSON body carries none
Success == "200"
AppCodes(r) ==
    IF r.status = "200" /\ r.json.kind # "not_json" THEN {Success, "500"} ELSE {None}

\* vsphone_simple._make_request: the 'data' member of a 200 response whose 'code'
\* is 200, None after anything else; a 'data' that is absent or null is None too
make_request(r, code) ==
    IF r.status = "200" /\ r.json.kind # "not_json" /\ code = Success
    THEN (IF r.json.kind \in {"absent", "null"} THEN NoneResponse ELSE r.json)
    ELSE NoneResponse

\* vsphone_simple.restart_device: return result is not None
restart_device(result) == result # NoneResponse

\* VSPhoneAPI.get_device_detail: raise_for_status() and response.json() inside
\* try ... except Exception: return None
get_device_detail(r) ==
    IF r.status = "200" /\ r.json.kind # "not_json" THEN r.json ELSE NoneResponse

\* every result get_devices() can give for the account
GetDevicesResults(acc) ==
    { get_devices(post1, get2, post3) : post1, get2, post3 \in HttpOutcomes(acc) }

(***************************************************************************)
(* check_account_devices: which devices are handed to check_device_apps.   *)
(***************************************************************************)
\* the condition of the search loop: d_id == device_id or d_name == device_name
Matches(dev, d) ==
    \/ dev.device_id # None /\ d.phoneId = dev.device_id
    \/ dev.device_name # None /\ d.phoneName = dev.device_name

\* the index of the first record of api_devices that matches, 0 when none does
RECURSIVE find_api_device(_, _, _)
find_api_device(api_devices, dev, i) ==
    IF i > Len(api_devices) THEN 0
    ELSE IF Matches(dev, api_devices[i]) THEN i
    ELSE find_api_device(api_devices, dev, i + 1)

is_online(d) == d.online = 1 \/ d.status = "online"

\* get_devices() gave nothing usable: not api_response or 'data' not in api_response
ApiFailed(resp) == resp.kind \in {"None", "absent"}

\* d.get('phoneId') raises AttributeError on an entry that is not an object; the
\* search loop is entered for the first device that has a device_ip
ApiRaises(resp, devices) ==
    resp.kind = "items" /\ \E i \in 1..Len(devices) : devices[i].device_ip # None

\* the device is reported offline by the record matched to it
ReportedOffline(resp, dev) ==
    /\ resp.kind = "list"
    /\ find_api_device(resp.list, dev, 1) # 0
    /\ ~is_online(resp.list[find_api_device(resp.list, dev, 1)])

\* faulty variant: the online flag of the matched record is not consulted
ChecksDeviceAlways(resp, dev) == dev.device_ip # None

\* faulty variant: a device that no record matches is passed over
ChecksDeviceIfFound(resp, dev) ==
    /\ dev.device_ip # None
    /\ \/ ApiFailed(resp)
       \/ resp.kind = "list" /\ find_api_device(resp.list, dev, 1) # 0
              /\ ~ReportedOffline(resp, dev)

\* check_device_apps is called for the device
ChecksDevice(resp, dev) ==
    /\ dev.device_ip # None
    /\ ApiFailed(resp) \/ ~ReportedOffline(resp, dev)

\* check_device_apps goes on to connect_device: it returns at once without apps
ConnectsDevice(resp, dev) == ChecksDevice(resp, dev) /\ dev.apps # <<>>

\* the next device from index i on that the worker connects to, 0 when none
RECURSIVE NextDevice(_, _, _)
NextDevice(resp, devices, i) ==
    IF i > Len(devices) THEN 0
    ELSE IF ConnectsDevice(resp, devices[i]) THEN i
    ELSE NextDevice(resp, devices, i + 1)

\* an app entry with a package and a roblox_url or share_code
ValidApp(app) == app.package # None /\ app.url_or_code # <<>>

\* faulty variant: the apps are gone through from the last to the first
NextAppReversed(apps, i) ==
    IF i = 1 THEN Len(apps) ELSE IF i > 2 THEN i - 2 ELSE 0

\* faulty variant: the loop over the apps ends at the first incomplete entry
NextAppUntilInvalid(apps, i) ==
    IF i > Len(apps) THEN 0
    ELSE IF ValidApp(apps[i]) THEN i
    ELSE 0

\* the next app from index i on that check_device_apps checks, 0 when none
RECURSIVE NextApp(_, _)
NextApp(apps, i) ==
    IF i > Len(apps) THEN 0
    ELSE IF ValidApp(apps[i]) THEN i
    ELSE NextApp(apps, i + 1)

(***************************************************************************)
(* DeviceController: each call runs adb and maps what happened to a bool.  *)
(***************************************************************************)
ConnectOutcomes == {"connected", "refused", "timeout", "error"}
connect_device(o) == o = "connected"

CheckOutcomes == {"listed", "not_listed", "timeout", "error"}

\* faulty variant: a check that failed is taken for a running app
check_app_running_unless_failed(o) == o # "not_listed"

check_app_running(o) == o = "listed"

AdbOutcomes == {"rc0", "rc1", "timeout", "error"}
kill_app(o) == o = "rc0"

start_app(url_or_code, o) == build_roblox_url(url_or_code) # <<>> /\ o = "rc0"

\* faulty variant: kill_app, which names no TimeoutExpired clause, lets it through
adb_raises_on_timeout(op, o) == op = "kill" /\ o = "timeout"

\* the call lets an exception out: never, the body of each of the four methods is
\* inside try ... except Exception
adb_raises(op, o) == FALSE

\* faulty variant: the launch is attempted only after a force-stop that succeeded
LaunchesIfKilled(killed) == killed

\* restart_app: the value of kill_app is dropped, start_app is called in any case
LaunchesAfterKill(killed) == TRUE

\* faulty variant: the result of connect_device is not tested
ProceedsAlways(is_connected) == TRUE

\* if not DeviceController.connect_device(device_ip): return
ProceedsAfterConnect(is_connected) == is_connected

\* faulty variant: an app is given up once a launch has failed in an earlier tick
NeedsRestartUnlessFailed(is_running) == ~is_running /\ \A a \in Accounts : ~failures[a]

\* if not is_running: the app is restarted
NeedsRestart(is_running) == ~is_running

\* self.max_restart_attempts, the default of monitoring.max_restart_attempts
max_restart_attempts == 3

\* faulty variant: a failed launch is repeated until max_restart_attempts is used up
RetriesLaunchBudget(success, attempts) == ~success /\ attempts < max_restart_attempts

\* the else branch after restart_app: the failure is printed and the loop goes on
\* to the next app; max_restart_attempts is never consulted
RetriesLaunch(success, attempts) == FALSE

\* the exception a worker raises out of check_account_devices
WorkerError == "AttributeError"

\* except Exception: the classes of error the clause catches
IsException(exc) == exc \in {"AttributeError", "TypeError", "ValueError", "OSError", "KeyError"}

\* faulty variant: future.result() is called outside a try
FutureErrorEscapes(exc) == FALSE

\* try: future.result() / except Exception: the error of a future is logged there
FutureErrorCaught(exc) == IsException(exc)

\* one call of a DeviceController method, as recorded in calls
Call(op, d, a, arg, ok) == [op |-> op, dev |-> d, app |-> a, arg |-> arg, ok |-> ok]

(***************************************************************************)
(* Statistics and their file.                                              *)
(***************************************************************************)
Stats(checks, restarts, last) ==
    [total_checks |-> checks, total_restarts |-> restarts, last_check |-> last]

FreshStats == Stats(0, 0, 0)

\* the restart counts a statistics record holds per device: the dictionary is made
\* with total_checks, total_restarts, last_check and started_at, and the code adds
\* no other key, so it holds a count for no device
per_device_restarts(st) == [d \in {} |-> 0]

File(kind, st) == [kind |-> kind, stats |-> st]

\* load_stats: the file's record, and fresh statistics when it is absent or unreadable
load_stats(f) == IF f.kind = "ok" THEN f.stats ELSE FreshStats

\* faulty variant: only a missing file is expected, a JSONDecodeError leaves load_stats
load_raises_on_corrupt(f) == f.kind = "corrupt"

\* load_stats raises: never, the file is read inside try / except Exception
load_raises(f) == FALSE

SaveOutcomes == {"ok", "open_error", "write_error"}

\* save_stats: open(STATS_FILE, 'w') truncates, json.dump writes; errors are logged
\* faulty variant: the record written is the one the tick started with
save_stats_stale(f, st, o) ==
    CASE o = "ok" -> File("ok", [st EXCEPT !.total_restarts = tr0])
      [] o = "open_error" -> f
      [] o = "write_error" -> File("corrupt", FreshStats)

\* a failed write leaves an empty file or the beginning of the new record, which no
\* reader can parse: the content of such a file is not kept
save_stats(f, st, o) ==
    CASE o = "ok" -> File("ok", st)
      [] o = "open_error" -> f
      [] o = "write_error" -> File("corrupt", FreshStats)

\* faulty variant: an error of open or json.dump leaves save_stats
save_raises_on_error(o) == o # "ok"

\* save_stats raises: never, its except Exception clause logs every error
save_raises(o) == FALSE

\* faulty variant: one check is counted per account
count_check_per_account(st, now) ==
    [st EXCEPT !.total_checks = @ + Len(config), !.last_check = now]

\* self.stats['total_checks'] += 1; self.stats['last_check'] = datetime.now()
count_check(st, now) == [st EXCEPT !.total_checks = @ + 1, !.last_check = now]

\* faulty variant: the while loop has no except Exception clause
LoopErrorEscapes(exc) == FALSE

\* except Exception around the body of the while loop: the error is logged and the
\* loop goes on after time.sleep(10)
LoopErrorCaught(exc) == IsException(exc)

\* where the main thread is after an error raised in the body of the while loop; an
\* error that leaves monitor_loop makes main() return 1
AfterError(exc) == IF LoopErrorCaught(exc) THEN "cooldown" ELSE "failed"

InitFiles == {File("absent", FreshStats)}

\* files that hold JSON which is not a complete statistics record: {} (or a value
\* that is not an object), {"total_checks": 0} and {"total_restarts": 0}.  A
\* counter that the record lacks is written -1
PartialFiles ==
    { File("ok", Stats(0 - 1, 0 - 1, 0)), File("ok", Stats(0, 0 - 1, 0)),
      File("ok", Stats(0 - 1, 0, 0)) }

\* self.stats['total_checks'] += 1 raises KeyError (TypeError on a value that is
\* not an object) when the record lacks the counter
count_check_raises(st) == st.total_checks < 0

\* self.stats['total_restarts'] += 1 raises likewise
count_restart_raises(st) == st.total_restarts < 0

\* max_workers=min(len(self.accounts), 4)
PoolCap == 4
Min(x, y) == IF x < y THEN x ELSE y

\* faulty variant: one thread per account, without the cap
max_workers_per_account == Len(config)

max_workers == Min(Len(config), PoolCap)

\* self.restart_delay, the default of monitoring.restart_delay
restart_delay == 5

(***************************************************************************)
(* The state after VSPhoneMonitor.__init__: the configuration is loaded,   *)
(* the statistics are read from the file, no tick has started.             *)
(***************************************************************************)
Idle == [a \in Accounts |-> "idle"]
Zeros == [a \in Accounts |-> 0]
NoCalls == [a \in Accounts |-> <<>>]

Init ==
    /\ config_file \in ConfigFiles
    /\ config \in ConfigsOf(config_file)
    /\ file \in InitFiles
    /\ stats = load_stats(file)
    /\ main = IF init_error(config_file) = None THEN "loop" ELSE "failed"
    /\ wpc = Idle
    /\ di = Zeros
    /\ ai = Zeros
    /\ tmp = Zeros
    /\ api = [a \in Accounts |-> NoneResponse]
    /\ calls = NoCalls
    /\ ticks = 0
    /\ tr0 = stats.total_restarts
    /\ failures = [a \in Accounts |-> FALSE]
    /\ clock = 0

\* a launch of the account reported failure in this tick
FailedLaunch(a) == \E i \in 1..Len(calls[a]) : calls[a][i].op = "start" /\ ~calls[a][i].ok

(***************************************************************************)
(* The main thread: monitor_loop.                                          *)
(***************************************************************************)
\* faulty variant: only a future whose function returned counts as finished
FinishedOnReturn(a) == wpc[a] = "done"

\* every future is finished: its function returned or raised
Finished(a) == wpc[a] \in {"done", "raised"}

\* the executor and its futures are discarded when the with block is left
Discard ==
    /\ wpc' = Idle
    /\ di' = Zeros
    /\ ai' = Zeros
    /\ api' = [a \in Accounts |-> NoneResponse]
    /\ calls' = NoCalls
    /\ failures' = [a \in Accounts |-> failures[a] \/ FailedLaunch(a)]

\* the head of the while loop up to the submits: ThreadPoolExecutor(max_workers=0)
\* raises ValueError, which the loop's except clause turns into the 10 s wait
StartTick ==
    /\ main = "loop"
    /\ ticks < MaxTicks
    /\ ticks' = ticks + 1
    /\ tr0' = stats.total_restarts
    /\ IF Len(config) = 0
       THEN main' = AfterError("ValueError") /\ wpc' = wpc
       ELSE main' = "waiting" /\ wpc' = [a \in Accounts |-> "queued"]
    /\ UNCHANGED <<clock, config_file, config, stats, file, di, ai, api, tmp, calls, failures>>

\* a future whose error the try around future.result() does not catch
Uncaught(a) == wpc[a] = "raised" /\ ~FutureErrorCaught(WorkerError)

\* as_completed is exhausted (the error of a future is caught and logged), the with
\* block is left, then: total_checks += 1, last_check = now, save_stats().  An error
\* that escapes the for loop reaches the loop's own except clause: the 10 s wait
UpdateStatistics ==
    /\ main = "waiting"
    /\ \A a \in Accounts : Finished(a)
    /\ IF \E a \in Accounts : Uncaught(a)
       THEN main' = AfterError(WorkerError) /\ UNCHANGED <<stats, file>>
       ELSE IF count_check_raises(stats)
       THEN main' = AfterError("KeyError") /\ UNCHANGED <<stats, file>>
       ELSE \E o \in SaveOutcomes :
                /\ stats' = count_check(stats, ticks)
                /\ file' = save_stats(file, stats', o)
                /\ main' = IF save_raises(o) THEN AfterError("OSError") ELSE "sleeping"
    /\ Discard
    /\ UNCHANGED <<clock, config_file, config, tmp, ticks, tr0>>

\* time.sleep(self.check_interval), or time.sleep(10) after an error, is over
Wake ==
    /\ main \in {"sleeping", "cooldown"}
    /\ main' = "loop"
    /\ UNCHANGED <<clock, config_file, config, stats, file, wpc, di, ai, api, tmp, calls, ticks, tr0, failures>>

\* signal_handler: sys.exit(0) raises SystemExit in the main thread, which no except
\* clause of monitor_loop catches; leaving the with block waits for the workers
Signal ==
    /\ main \in {"loop", "waiting", "sleeping", "cooldown"}
    /\ main' = IF main = "waiting" THEN "exiting" ELSE "exited"
    /\ UNCHANGED <<clock, config_file, config, stats, file, wpc, di, ai, api, tmp, calls, ticks, tr0, failures>>

\* executor.shutdown(wait=True) returns, SystemExit leaves main(): the process ends
Exit ==
    /\ main = "exiting"
    /\ \A a \in Accounts : Finished(a)
    /\ main' = "exited"
    /\ Discard
    /\ UNCHANGED <<clock, config_file, config, stats, file, tmp, ticks, tr0>>

\* the monitor is started again: __init__ reads the configuration and the statistics
Restart ==
    /\ main = "exited"
    /\ main' = IF load_raises(file) THEN "failed" ELSE "loop"
    /\ stats' = load_stats(file)
    /\ tr0' = load_stats(file).total_restarts
    /\ UNCHANGED <<clock, config_file, config, file, wpc, di, ai, api, tmp, calls, ticks, failures>>

(***************************************************************************)
(* A worker: check_account_devices(account) and what it calls.             *)
(***************************************************************************)
Goto(a, pc, d, ap) ==
    /\ wpc' = [wpc EXCEPT ![a] = pc]
    /\ di' = [di EXCEPT ![a] = d]
    /\ ai' = [ai EXCEPT ![a] = ap]

\* the for loop over account['devices'], from index i on
ToDevice(a, resp, i) ==
    IF NextDevice(resp, config[a].devices, i) = 0
    THEN Goto(a, "done", 0, 0)
    ELSE Goto(a, "connect", NextDevice(resp, config[a].devices, i), 0)

\* the for loop over apps, from index i on; after it the next device
ToApp(a, i) ==
    IF NextApp(config[a].devices[di[a]].apps, i) = 0
    THEN ToDevice(a, api[a], di[a] + 1)
    ELSE Goto(a, "check", di[a], NextApp(config[a].devices[di[a]].apps, i))

Log(a, c) == calls' = [calls EXCEPT ![a] = Append(@, c)]

\* a thread of the pool takes the account's work item, the oldest first
Pickup(a) ==
    /\ wpc[a] = "queued"
    /\ \A b \in Accounts : b < a => wpc[b] # "queued"
    /\ Cardinality({b \in Accounts : wpc[b] \notin {"idle", "queued", "done", "raised"}}) < max_workers
    /\ wpc' = [wpc EXCEPT ![a] = "get_devices"]
    /\ UNCHANGED <<clock, config_file, config, main, stats, file, di, ai, api, tmp, calls, ticks, tr0, failures>>

\* api.get_devices() and the test of its result
GetDevices(a) ==
    /\ wpc[a] = "get_devices"
    /\ \E r \in GetDevicesResults(config[a]) :
        /\ api' = [api EXCEPT ![a] = r]
        /\ IF ApiRaises(r, config[a].devices)
           THEN Goto(a, "raised", 0, 0)
           ELSE ToDevice(a, r, 1)
    /\ UNCHANGED <<clock, config_file, config, main, stats, file, tmp, calls, ticks, tr0, failures>>

\* DeviceController.connect_device(device_ip)
Connect(a) ==
    /\ wpc[a] = "connect"
    /\ \E o \in ConnectOutcomes :
        /\ Log(a, Call("connect", di[a], 0, <<>>, connect_device(o)))
        /\ IF ProceedsAfterConnect(connect_device(o))
           THEN ToApp(a, 1)
           ELSE ToDevice(a, api[a], di[a] + 1)
    /\ UNCHANGED <<clock, config_file, config, main, stats, file, api, tmp, ticks, tr0, failures>>

\* DeviceController.check_app_running(device_ip, package)
CheckApp(a) ==
    /\ wpc[a] = "check"
    /\ \E o \in CheckOutcomes :
        /\ Log(a, Call("check", di[a], ai[a], <<>>, check_app_running(o)))
        /\ IF NeedsRestart(check_app_running(o))
           THEN Goto(a, "kill", di[a], ai[a])
           ELSE ToApp(a, ai[a] + 1)
    /\ UNCHANGED <<clock, config_file, config, main, stats, file, api, tmp, ticks, tr0, failures>>

\* restart_app: DeviceController.kill_app(ip, package); restart_app drops the
\* result, so the call is recorded without it
KillApp(a) ==
    /\ wpc[a] = "kill"
    /\ Log(a, Call("kill", di[a], ai[a], <<>>, TRUE))
    /\ Goto(a, "sleep", di[a], ai[a])
    /\ UNCHANGED <<clock, config_file, config, main, stats, file, api, tmp, ticks, tr0, failures>>

\* restart_app: time.sleep(delay)
Sleep(a) ==
    /\ wpc[a] = "sleep"
    /\ Log(a, Call("sleep", di[a], ai[a], <<restart_delay>>, TRUE))
    /\ Goto(a, "start", di[a], ai[a])
    /\ UNCHANGED <<clock, config_file, config, main, stats, file, api, tmp, ticks, tr0, failures>>

\* the number of launches of the app recorded so far in this tick
Attempts(a, d, ap) ==
    Cardinality({ i \in 1..Len(calls[a]) :
                    calls[a][i].op = "start" /\ calls[a][i].dev = d /\ calls[a][i].app = ap })

\* restart_app: DeviceController.start_app(ip, package, url_or_code), and the test
\* of its result in check_device_apps
StartApp(a) ==
    /\ wpc[a] = "start"
    /\ \E o \in AdbOutcomes :
        LET url_or_code == config[a].devices[di[a]].apps[ai[a]].url_or_code
            success == start_app(url_or_code, o)
        IN
        /\ Log(a, Call("start", di[a], ai[a], build_roblox_url(url_or_code), success))
        /\ IF success
           THEN Goto(a, "incr", di[a], ai[a])
           ELSE IF RetriesLaunch(success, Attempts(a, di[a], ai[a]) + 1)
           THEN Goto(a, "kill", di[a], ai[a])
           ELSE ToApp(a, ai[a] + 1)
    /\ UNCHANGED <<clock, config_file, config, main, stats, file, api, tmp, ticks, tr0, failures>>

\* self.stats['total_restarts'] += 1, first half: the value is read
ReadRestarts(a) ==
    /\ wpc[a] = "incr"
    /\ IF count_restart_raises(stats)
       THEN tmp' = tmp /\ wpc' = [wpc EXCEPT ![a] = "raised"]
       ELSE tmp' = [tmp EXCEPT ![a] = stats.total_restarts] /\ wpc' = [wpc EXCEPT ![a] = "store"]
    /\ UNCHANGED <<clock, config_file, config, main, stats, file, di, ai, api, calls, ticks, tr0, failures>>

\* self.stats['total_restarts'] += 1, second half: the sum is stored
WriteRestarts(a) ==
    /\ wpc[a] = "store"
    /\ stats' = [stats EXCEPT !.total_restarts = tmp[a] + 1]
    /\ tmp' = [tmp EXCEPT ![a] = 0]
    /\ ToApp(a, ai[a] + 1)
    /\ UNCHANGED <<clock, config_file, config, main, file, api, calls, ticks, tr0, failures>>

Next ==
    \/ StartTick
    \/ UpdateStatistics
    \/ Wake
    \/ Signal
    \/ Exit
    \/ Restart
    \/ \E a \in Accounts : Pickup(a)
    \/ \E a \in Accounts : GetDevices(a)
    \/ \E a \in Accounts : Connect(a)
    \/ \E a \in Accounts : CheckApp(a)
    \/ \E a \in Accounts : KillApp(a)
    \/ \E a \in Accounts : Sleep(a)
    \/ \E a \in Accounts : StartApp(a)
    \/ \E a \in Accounts : ReadRestarts(a)
    \/ \E a \in Accounts : WriteRestarts(a)

Spec == Init /\ [][Next]_vars

\* time.sleep returns and the while True loop goes on to its next pass
FairSpec == Spec /\ WF_vars(Wake) /\ WF_vars(StartTick)

\* one step of the worker of an account
Worker(a) ==
    \/ Pickup(a) \/ GetDevices(a) \/ Connect(a) \/ CheckApp(a) \/ KillApp(a)
    \/ Sleep(a) \/ StartApp(a) \/ ReadRestarts(a) \/ WriteRestarts(a)

\* one step of the main thread in monitor_loop
MainThread == StartTick \/ UpdateStatistics \/ Wake \/ Exit

\* every call returns: requests are made with timeout=15, subprocess.run with
\* timeout=10 or 15, time.sleep ends; threads that can run do run
Fairness == WF_vars(MainThread) /\ WF_vars(\E a \in Accounts : Worker(a))

\* two accounts: a device with one app, and a device that has no apps yet
UnevenAccounts ==
    << [name |-> "A",
        devices |-> << Device("p1", "n1", "ip1", << App("com.roblox.client", ShareCode) >>) >>],
       [name |-> "B",
        devices |-> << Device("p2", "n2", "ip2", <<>>) >>] >>

LiveInit ==
    /\ config_file = "complete"
    /\ config = UnevenAccounts
    /\ file \in InitFiles
    /\ stats = load_stats(file)
    /\ main = "loop"
    /\ wpc = Idle
    /\ di = Zeros
    /\ ai = Zeros
    /\ tmp = Zeros
    /\ api = [a \in Accounts |-> NoneResponse]
    /\ calls = NoCalls
    /\ ticks = 0
    /\ tr0 = stats.total_restarts
    /\ failures = [a \in Accounts |-> FALSE]
    /\ clock = 0

LiveSpec == LiveInit /\ [][Next]_vars /\ Fairness

(***************************************************************************)
(* VSPhoneAPI.get_devices one HTTP request at a time: the client of the    *)
(* first account issues its requests, calls records each request with its  *)
(* verb, the status it met and whether it gave the result, api the value   *)
(* returned.  The client of vsphone_simple.py issues its restart request    *)
(* the same way, as do get_device_detail and a single call of each method  *)
(* of DeviceController, recorded with what adb did.                        *)
(***************************************************************************)
ApiInit ==
    /\ config_file = "complete"
    /\ config \in Configs
    /\ file \in InitFiles
    /\ stats = load_stats(file)
    /\ main = "client"
    /\ \E pc \in {"post", "simple", "detail", "adb"} : wpc = [a \in Accounts |-> IF a = 1 THEN pc ELSE "idle"]
    /\ di = Zeros
    /\ ai = Zeros
    /\ tmp = Zeros
    /\ api = [a \in Accounts |-> NoneResponse]
    /\ calls = NoCalls
    /\ ticks = 0
    /\ tr0 = 0
    /\ failures = [a \in Accounts |-> FALSE]
    /\ clock = 0

\* one request of get_devices: it returns the body of a usable answer, goes on
\* to the next method after anything else, and returns None after the last one
Request(a, pc, verb, body, next) ==
    /\ wpc[a] = pc
    /\ \E o \in HttpOutcomes(config[a]) : \E code \in AppCodes(o) :
        /\ Log(a, Call(verb, 0, 0,
                       <<o.status, code,
                         Wire(sign_request(verb, ListUri, "", body, clock),
                              IF verb = "GET" THEN "" ELSE body, clock)>>,
                       AttemptOk(o)))
        /\ IF AttemptOk(o)
           THEN wpc' = [wpc EXCEPT ![a] = "returned"] /\ api' = [api EXCEPT ![a] = o.json]
           ELSE wpc' = [wpc EXCEPT ![a] = next] /\ api' = api
    /\ UNCHANGED <<clock, config_file, config, main, stats, file, di, ai, tmp, ticks, tr0, failures>>

\* Method 1: requests.post(..., json={})
HttpPost(a) == Request(a, "post", "POST", "{}", "get")

\* Method 2: requests.get(...)
HttpGet(a) == Request(a, "get", "GET", "", "post_empty")

\* Method 3: requests.post(..., data="")
HttpPostEmpty(a) == Request(a, "post_empty", "POST", "", "returned")

\* vsphone_simple: restart_device(pad_code), one POST through _make_request
RestartDevice(a) ==
    /\ wpc[a] = "simple"
    /\ \E o \in HttpOutcomes(config[a]) : \E code \in AppCodes(o) :
        /\ Log(a, Call("restart_device", 0, 0,
                       <<o.status, code,
                         Wire(make_request_headers("{padCodes}", clock), "{padCodes}", clock)>>,
                       restart_device(make_request(o, code))))
        /\ wpc' = [wpc EXCEPT ![a] = "returned"]
    /\ UNCHANGED <<clock, config_file, config, main, stats, file, di, ai, api, tmp, ticks, tr0, failures>>

\* VSPhoneAPI.get_device_detail(device_id), one POST
GetDeviceDetail(a) ==
    /\ wpc[a] = "detail"
    /\ \E o \in HttpOutcomes(config[a]) : \E code \in AppCodes(o) :
        /\ Log(a, Call("detail", 0, 0,
                       <<o.status, code,
                         Wire(sign_request("POST", DetailUri, "", "{phoneId}", clock),
                              "{phoneId}", clock)>>,
                       get_device_detail(o) # NoneResponse))
        /\ api' = [api EXCEPT ![a] = get_device_detail(o)]
        /\ wpc' = [wpc EXCEPT ![a] = "returned"]
    /\ UNCHANGED <<clock, config_file, config, main, stats, file, di, ai, tmp, ticks, tr0, failures>>

\* one call of a DeviceController method on the first app of the first device,
\* recorded with what adb did and with the value returned
Adb(a, op, o, value) ==
    /\ wpc[a] = "adb"
    /\ IF adb_raises(op, o)
       THEN wpc' = [wpc EXCEPT ![a] = "raised"] /\ calls' = calls
       ELSE wpc' = [wpc EXCEPT ![a] = "returned"] /\ Log(a, Call(op, 1, 1, <<o>>, value))
    /\ UNCHANGED <<clock, config_file, config, main, stats, file, di, ai, api, tmp, ticks, tr0, failures>>

AdbConnect(a) == \E o \in ConnectOutcomes : Adb(a, "connect", o, connect_device(o))

AdbCheck(a) == \E o \in CheckOutcomes : Adb(a, "check", o, check_app_running(o))

AdbKill(a) == \E o \in AdbOutcomes : Adb(a, "kill", o, kill_app(o))

AdbStart(a) ==
    \E o \in AdbOutcomes :
        Adb(a, "start", o, start_app(config[a].devices[1].apps[1].url_or_code, o))

\* a second passes while the client is at work
ClockTick ==
    /\ main = "client"
    /\ \E a \in Accounts : wpc[a] \in {"post", "get", "post_empty", "simple", "detail"}
    /\ clock < MaxClock
    /\ clock' = clock + 1
    /\ UNCHANGED <<config_file, config, main, stats, file, wpc, di, ai, api, tmp, calls, ticks, tr0, failures>>

ApiNext ==
    \/ ClockTick
    \/ \E a \in Accounts : GetDeviceDetail(a)
    \/ \E a \in Accounts : AdbConnect(a)
    \/ \E a \in Accounts : AdbCheck(a)
    \/ \E a \in Accounts : AdbKill(a)
    \/ \E a \in Accounts : AdbStart(a)
    \/ \E a \in Accounts : RestartDevice(a)
    \/ \E a \in Accounts : HttpPost(a)
    \/ \E a \in Accounts : HttpGet(a)
    \/ \E a \in Accounts : HttpPostEmpty(a)

ApiSpec == ApiInit /\ [][ApiNext]_vars

(***************************************************************************)
(* One app of check_device_apps on its own: check_app_running and, when it *)
(* answers False, restart_app (kill_app, time.sleep, start_app) and the    *)
(* count of the restart.  calls records each call with what adb did and    *)
(* with the value the method returned.                                     *)
(***************************************************************************)
CycleInit ==
    /\ config_file = "complete"
    /\ config \in Configs
    /\ file \in InitFiles
    /\ stats = load_stats(file)
    /\ main = "client"
    /\ wpc = [a \in Accounts |-> IF a = 1 THEN "cycle" ELSE "idle"]
    /\ di = Zeros
    /\ ai = Zeros
    /\ tmp = Zeros
    /\ api = [a \in Accounts |-> NoneResponse]
    /\ calls = NoCalls
    /\ ticks = 0
    /\ tr0 = 0
    /\ failures = [a \in Accounts |-> FALSE]
    /\ clock = 0

\* is_running = DeviceController.check_app_running(device_ip, package)
CycleCheck(a) ==
    /\ wpc[a] = "cycle"
    /\ \E o \in CheckOutcomes :
        /\ Log(a, Call("check", 1, 1, <<o>>, check_app_running(o)))
        /\ wpc' = [wpc EXCEPT ![a] = IF NeedsRestart(check_app_running(o))
                                      THEN "cycle_kill" ELSE "returned"]
    /\ UNCHANGED <<clock, config_file, config, main, stats, file, di, ai, api, tmp, ticks, tr0, failures>>

\* restart_app: DeviceController.kill_app(ip, package)
CycleKill(a) ==
    /\ wpc[a] = "cycle_kill"
    /\ \E o \in AdbOutcomes :
        /\ Log(a, Call("kill", 1, 1, <<o>>, kill_app(o)))
        /\ wpc' = [wpc EXCEPT ![a] = IF LaunchesAfterKill(kill_app(o))
                                      THEN "cycle_sleep" ELSE "returned"]
    /\ UNCHANGED <<clock, config_file, config, main, stats, file, di, ai, api, tmp, ticks, tr0, failures>>

\* restart_app: time.sleep(delay)
CycleSleep(a) ==
    /\ wpc[a] = "cycle_sleep"
    /\ Log(a, Call("sleep", 1, 1, <<restart_delay>>, TRUE))
    /\ wpc' = [wpc EXCEPT ![a] = "cycle_start"]
    /\ UNCHANGED <<clock, config_file, config, main, stats, file, di, ai, api, tmp, ticks, tr0, failures>>

\* restart_app: success = DeviceController.start_app(ip, package, url_or_code), and
\* in check_device_apps: if success: self.stats['total_restarts'] += 1
CycleStart(a) ==
    /\ wpc[a] = "cycle_start"
    /\ \E o \in AdbOutcomes :
        LET success == start_app(config[a].devices[1].apps[1].url_or_code, o)
        IN  /\ Log(a, Call("start", 1, 1, <<o>>, success))
            /\ stats' = IF success
                        THEN [stats EXCEPT !.total_restarts = @ + 1]
                        ELSE stats
    /\ wpc' = [wpc EXCEPT ![a] = "returned"]
    /\ UNCHANGED <<clock, config_file, config, main, file, di, ai, api, tmp, ticks, tr0, failures>>

CycleNext ==
    \/ \E a \in Accounts : CycleCheck(a)
    \/ \E a \in Accounts : CycleKill(a)
    \/ \E a \in Accounts : CycleSleep(a)
    \/ \E a \in Accounts : CycleStart(a)

CycleSpec == CycleInit /\ [][CycleNext]_vars

(***************************************************************************)
(* The monitor started on inputs that are accepted but incomplete: a       *)
(* statistics file that is not a complete record, and a device whose first *)
(* two app entries lack the package and the launch reference.              *)
(***************************************************************************)
SkippedApps ==
    << [name |-> "A",
        devices |-> << Device(None, None, "ip1",
                              << App(None, ShareCode),
                                 App("com.roblox.client", <<>>),
                                 App("com.roblox.vng", ShareUrl) >>) >>] >>

EdgeConfigs == {SkippedApps, UnevenAccounts}

EdgeInit ==
    /\ config_file = "complete"
    /\ config \in EdgeConfigs
    /\ file \in InitFiles \cup PartialFiles
    /\ stats = load_stats(file)
    /\ main = "loop"
    /\ wpc = Idle
    /\ di = Zeros
    /\ ai = Zeros
    /\ tmp = Zeros
    /\ api = [a \in Accounts |-> NoneResponse]
    /\ calls = NoCalls
    /\ ticks = 0
    /\ tr0 = stats.total_restarts
    /\ failures = [a \in Accounts |-> FALSE]
    /\ clock = 0

EdgeSpec == EdgeInit /\ [][Next]_vars

(***************************************************************************)
(* The monitor with more accounts than the pool has threads: five accounts *)
(* that have no devices yet, besides the account with three devices.       *)
(***************************************************************************)
FiveAccounts == [a \in 1..5 |-> [name |-> <<"A", "B", "C", "D", "E">>[a], devices |-> <<>>]]

PoolConfigs == {FiveAccounts, OneAccount}

PoolInit ==
    /\ config_file = "complete"
    /\ config \in PoolConfigs
    /\ file \in InitFiles
    /\ stats = load_stats(file)
    /\ main = "loop"
    /\ wpc = Idle
    /\ di = Zeros
    /\ ai = Zeros
    /\ tmp = Zeros
    /\ api = [a \in Accounts |-> NoneResponse]
    /\ calls = NoCalls
    /\ ticks = 0
    /\ tr0 = stats.total_restarts
    /\ failures = [a \in Accounts |-> FALSE]
    /\ clock = 0

PoolSpec == PoolInit /\ [][Next]_vars

(***************************************************************************)
(* DeviceController.build_roblox_url on its own: the launch reference of   *)
(* the configured app is normalised, and the result is normalised again.   *)
(* calls records the value of each application.                            *)
(***************************************************************************)
\* surrounding whitespace of a reference
Pads == {<<>>, <<" ">>}

\* references without surrounding whitespace: nothing, bare codes (one of them
\* beginning with the letters http, one with a blank inside), http and https
\* URLs, a URL in capitals, a truncated prefix and links of two other schemes
Cores ==
    { <<>>, <<"a", "b">>, <<"a", " ", "b">>, <<"h", "t", "t">>,
      <<"h", "t", "t", "p">>, <<"h", "t", "t", "p", "a">>,
      <<"h", "t", "t", "p", ":", "/", "/", "x">>,
      <<"h", "t", "t", "p", "s", ":", "/", "/", "x">>,
      <<"H", "T", "T", "P", ":", "/", "/", "x">>,
      <<"r", "b", "x", ":", "/", "/", "1">>,
      <<"f", "t", "p", ":", "x">>,
      <<"p", ":", "h", "t", "t", "p">> }

\* the values of roblox_url / share_code explored
Refs == { l \o c \o r : l \in Pads, c \in Cores, r \in Pads }

UrlConfigs ==
    { << [name |-> "A",
          devices |-> << Device(None, None, "ip1", << App("com.roblox.client", r) >>) >>] >>
      : r \in Refs }

\* the reference the account's app is configured with
Ref(a) == config[a].devices[1].apps[1].url_or_code

UrlInit ==
    /\ config_file = "complete"
    /\ config \in UrlConfigs
    /\ file \in InitFiles
    /\ stats = load_stats(file)
    /\ main = "client"
    /\ wpc = [a \in Accounts |-> "normalize"]
    /\ di = Zeros
    /\ ai = Zeros
    /\ tmp = Zeros
    /\ api = [a \in Accounts |-> NoneResponse]
    /\ calls = NoCalls
    /\ ticks = 0
    /\ tr0 = 0
    /\ failures = [a \in Accounts |-> FALSE]
    /\ clock = 0

\* roblox_url = DeviceController.build_roblox_url(url_or_code)
Normalize(a) ==
    /\ wpc[a] = "normalize"
    /\ Log(a, Call("build_roblox_url", 1, 1, build_roblox_url(Ref(a)), TRUE))
    /\ wpc' = [wpc EXCEPT ![a] = "normalized"]
    /\ UNCHANGED <<clock, config_file, config, main, stats, file, di, ai, api, tmp, ticks, tr0, failures>>

\* DeviceController.build_roblox_url(roblox_url): the link is normalised again
Renormalize(a) ==
    /\ wpc[a] = "normalized"
    /\ Log(a, Call("build_roblox_url", 1, 1, build_roblox_url(calls[a][1].arg), TRUE))
    /\ wpc' = [wpc EXCEPT ![a] = "returned"]
    /\ UNCHANGED <<clock, config_file, config, main, stats, file, di, ai, api, tmp, ticks, tr0, failures>>

UrlNext ==
    \/ \E a \in Accounts : Normalize(a)
    \/ \E a \in Accounts : Renormalize(a)

UrlSpec == UrlInit /\ [][UrlNext]_vars

(***************************************************************************)
(* Properties.                                                             *)
(***************************************************************************)
Devs(a) == 1..Len(config[a].devices)
Apps(a, d) == 1..Len(config[a].devices[d].apps)

\* the positions in the account's calls of this tick of the calls op for (d, ap)
Entries(a, op, d, ap) ==
    { i \in 1..Len(calls[a]) :
        calls[a][i].op = op /\ calls[a][i].dev = d /\ calls[a][i].app = ap }

Count(a, op, d, ap) == Cardinality(Entries(a, op, d, ap))

\* some call of this tick addresses the device
Touched(a, d) == \E i \in 1..Len(calls[a]) : calls[a][i].dev = d

\* C1: in one tick, for every device and app, at most one kill_app and at most one
\* start_app call is issued, whatever connect, check, kill and start answer.
C1_OneCyclePerTick ==
    \A a \in Accounts : \A d \in Devs(a) : \A ap \in Apps(a, d) :
        Count(a, "kill", d, ap) <= 1 /\ Count(a, "start", d, ap) <= 1

\* a worker is through with its account and a launch it issued reported failure
C1_Witness ==
    \E a \in Accounts : \E d \in Devs(a) : \E ap \in Apps(a, d) :
        /\ Finished(a)
        /\ Count(a, "kill", d, ap) = 1
        /\ \E i \in Entries(a, "start", d, ap) : ~calls[a][i].ok

(***************************************************************************)
(* The restart cycle.                                                      *)
(***************************************************************************)
\* the step appends a call op to the calls of account a
Issues(a, op) ==
    /\ Len(calls'[a]) = Len(calls[a]) + 1
    /\ calls'[a][Len(calls'[a])].op = op

\* the worker of account a completes self.stats['total_restarts'] += 1
Stores(a) == wpc[a] = "store" /\ wpc'[a] # "store"

\* the monitor process is started again
Restarts == main = "exited" /\ main' = "loop"

\* a launch comes right after the failed check, the kill and the sleep of
\* restart_delay for the same device and app, and is given the built URL
C2_OrderStep ==
    \A a \in Accounts :
        Issues(a, "start") =>
            LET n == Len(calls[a])
                c == calls'[a][n + 1]
                app == config[a].devices[c.dev].apps[c.app]
            IN  /\ n >= 4
                /\ calls[a][n] = Call("sleep", c.dev, c.app, <<restart_delay>>, TRUE)
                /\ calls[a][n - 1] = Call("kill", c.dev, c.app, <<>>, TRUE)
                /\ calls[a][n - 2] = Call("check", c.dev, c.app, <<>>, FALSE)
                /\ \E i \in 1..(n - 3) : calls[a][i] = Call("connect", c.dev, 0, <<>>, TRUE)
                /\ c.arg = build_roblox_url(app.url_or_code)
                /\ c.ok => wpc'[a] = "incr"

\* the increment that follows a successful launch raises total_restarts by one
C2_CountStep ==
    \A a \in Accounts : Stores(a) => stats'.total_restarts = stats.total_restarts + 1

\* the order of the restart cycle alone
C2_Order == [][C2_OrderStep]_vars

\* C2: when a connected device's app is reported not running, the engine stops the
\* package, waits restart_delay, then launches with the normalized link, in this
\* order; a launch that reports success raises total_restarts by exactly 1.
C2_RestartSequence == [][C2_OrderStep /\ C2_CountStep]_vars

(***************************************************************************)
(* A failed connect.                                                       *)
(***************************************************************************)
ConnectFailed(a, d) == \E i \in Entries(a, "connect", d, 0) : ~calls[a][i].ok

\* C3: when connect_device fails for a device, no check, kill, sleep or launch is
\* issued for any app of that device in the tick, and the worker never goes on to
\* count a restart for it.
C3_ConnectFailedStops ==
    \A a \in Accounts : \A d \in Devs(a) :
        ConnectFailed(a, d) =>
            /\ \A i \in 1..Len(calls[a]) :
                   calls[a][i].dev = d => calls[a][i].op = "connect"
            /\ Count(a, "connect", d, 0) = 1
            /\ ~(di[a] = d /\ wpc[a] \in {"check", "kill", "sleep", "start", "incr", "store"})

\* a worker is through with an account in which the connect to a device that has an
\* app to check failed
C3_Witness ==
    \E a \in Accounts : \E d \in Devs(a) :
        /\ Finished(a)
        /\ ConnectFailed(a, d)
        /\ NextApp(config[a].devices[d].apps, 1) # 0

(***************************************************************************)
(* Counting restarts.                                                      *)
(***************************************************************************)
\* C4: total_restarts is raised by exactly 1 when, and only when, a launch reports
\* success: within a process it changes only where a worker completes the increment
\* that follows a successful launch, and each such increment adds one; a running
\* app, a failed connect, a failed kill and a failed launch lead to no increment.
C4_CountsSuccessfulLaunches ==
    [][ Restarts \/
        /\ stats'.total_restarts # stats.total_restarts => \E a \in Accounts : Stores(a)
        /\ \A a \in Accounts :
            /\ Stores(a) => stats'.total_restarts = stats.total_restarts + 1
            /\ (wpc[a] # "incr" /\ wpc'[a] = "incr")
                   <=> (Issues(a, "start") /\ calls'[a][Len(calls'[a])].ok) ]_vars

\* the launches of the account that reported success in this tick
Launched(a) ==
    Cardinality({ i \in 1..Len(calls[a]) : calls[a][i].op = "start" /\ calls[a][i].ok })

RECURSIVE TotalLaunched(_)
TotalLaunched(n) == IF n = 0 THEN 0 ELSE Launched(n) + TotalLaunched(n - 1)

\* C5: with several accounts evaluated concurrently, under every interleaving
\* total_restarts at the end of the tick is its value at the start of the tick plus
\* the number of launches that reported success across all accounts.
C5_NoLostIncrement ==
    (main = "waiting" /\ \A a \in Accounts : Finished(a)) =>
        stats.total_restarts = tr0 + TotalLaunched(Len(config))

(***************************************************************************)
(* Accounts in one tick.                                                   *)
(***************************************************************************)
\* the calls of a finished account are those its own answers determine: one connect
\* per device that is checked, one check per valid app of a connected device, one
\* kill, sleep and launch per app whose check failed
Complete(b) ==
    \A d \in Devs(b) :
        LET dev == config[b].devices[d]
            connected == \E i \in Entries(b, "connect", d, 0) : calls[b][i].ok
        IN  /\ Count(b, "connect", d, 0) = IF ConnectsDevice(api[b], dev) THEN 1 ELSE 0
            /\ \A ap \in Apps(b, d) :
                LET down == \E i \in Entries(b, "check", d, ap) : ~calls[b][i].ok
                IN  /\ Count(b, "check", d, ap) =
                           IF connected /\ ValidApp(dev.apps[ap]) THEN 1 ELSE 0
                    /\ \A op \in {"kill", "sleep", "start"} :
                           Count(b, op, d, ap) = IF down THEN 1 ELSE 0

\* the main thread leaves the tick
LeavesTick == main = "waiting" /\ main' \notin {"waiting", "exiting"}

\* C6: an API failure or an exception in the evaluation of one account changes
\* nothing for another: every other account has made exactly the calls its own
\* answers determine, an account raises only for its own response, and the tick
\* still counts the check, sets last_check and goes on to the sleep.
C6_AccountsIsolated ==
    [][ (LeavesTick /\ \E a \in Accounts : wpc[a] = "raised" \/ ApiFailed(api[a])) =>
            /\ main' = "sleeping"
            /\ stats'.total_checks = stats.total_checks + 1
            /\ stats'.total_restarts = stats.total_restarts
            /\ stats'.last_check = ticks
            /\ \A b \in Accounts :
                /\ wpc[b] = "raised" <=> ApiRaises(api[b], config[b].devices)
                /\ wpc[b] = "done" => Complete(b) ]_vars

\* the tick is about to end: one account raised, another one restarted its app
C6_Witness ==
    /\ main = "waiting"
    /\ \A a \in Accounts : Finished(a)
    /\ \E a, b \in Accounts :
        /\ wpc[a] = "raised"
        /\ wpc[b] = "done"
        /\ Launched(b) = 1

(***************************************************************************)
(* The device list.                                                        *)
(***************************************************************************)
\* C7: if get_devices fails in any way (timeout, unreachable, unauthorized, status
\* other than 200, malformed response), every configured device with a device_ip
\* (and apps) is still connected to in that tick.
C7_ApiFailureKeepsChecks ==
    \A a \in Accounts :
        (Finished(a) /\ api[a].kind # "list") =>
            \A d \in Devs(a) :
                (config[a].devices[d].device_ip # None /\ config[a].devices[d].apps # <<>>)
                    => Count(a, "connect", d, 0) = 1

C9_NoRetryNoMemory ==
    \A a \in Accounts : \A i \in 1..Len(calls[a]) :
        LET c == calls[a][i]
        IN  /\ (c.op = "start" /\ ~c.ok) =>
                   \A j \in (i + 1)..Len(calls[a]) :
                       ~(calls[a][j].dev = c.dev /\ calls[a][j].app = c.app)
            /\ (c.op = "check" /\ ~c.ok) =>
                   IF i < Len(calls[a])
                   THEN calls[a][i + 1] = Call("kill", c.dev, c.app, <<>>, TRUE)
                   ELSE wpc[a] = "kill" /\ di[a] = c.dev /\ ai[a] = c.app

\* in the tick after one in which the launch of the account's app failed, the app
\* is launched again
C9_Witness ==
    /\ config = TwoAccounts
    /\ ticks = 2
    /\ \E a \in Accounts : failures[a] /\ Count(a, "start", 1, 1) = 1

(***************************************************************************)
(* The counters over time.                                                 *)
(***************************************************************************)
\* C10: total_checks and total_restarts never decrease: not in memory while the
\* process runs, not in the file from one complete record to the next, and not in
\* memory when the process is started again on a file that holds the record of
\* its last complete tick.
C10_CountersMonotone ==
    [][ /\ ~Restarts =>
            /\ stats'.total_checks >= stats.total_checks
            /\ stats'.total_restarts >= stats.total_restarts
        /\ (file.kind = "ok" /\ file'.kind = "ok") =>
            /\ file'.stats.total_checks >= file.stats.total_checks
            /\ file'.stats.total_restarts >= file.stats.total_restarts
        /\ (Restarts /\ file.kind = "ok" /\ file.stats.total_checks = stats.total_checks) =>
            /\ stats'.total_checks >= stats.total_checks
            /\ stats'.total_restarts >= stats.total_restarts ]_vars

(***************************************************************************)
(* The statistics record.                                                  *)
(***************************************************************************)
RECURSIVE SumCounts(_, _)
SumCounts(counts, S) ==
    IF S = {} THEN 0
    ELSE LET d == CHOOSE x \in S : TRUE
         IN  counts[d] + SumCounts(counts, S \ {d})

\* C11: after every tick, total_restarts equals the sum over all devices of the
\* per-device restart counts of the statistics.
C11_TotalIsSumPerDevice ==
    main = "sleeping" =>
        stats.total_restarts =
            SumCounts(per_device_restarts(stats), DOMAIN per_device_restarts(stats))

\* C12: saving is an atomic replace: whatever happens during save_stats, the file
\* afterwards holds the complete previous record or the complete new one, never
\* an empty or partly written record.
C12_AtomicSave == [][ file' = file \/ file' = File("ok", stats') ]_vars

\* C13: when the statistics file is missing or corrupt as the process starts,
\* load_stats does not raise and gives statistics whose total_checks and
\* total_restarts are zero, and the process goes on to the monitoring loop.
C13_FreshStatsOnBadFile ==
    [][ (main = "exited" /\ main' # "exited" /\ file.kind \in {"absent", "corrupt"}) =>
            /\ main' = "loop"
            /\ stats'.total_checks = 0
            /\ stats'.total_restarts = 0 ]_vars

\* the process was started again on a corrupt file after a tick had been counted
C13_Witness ==
    /\ main = "loop"
    /\ ticks >= 1
    /\ file.kind = "corrupt"
    /\ stats = FreshStats

(***************************************************************************)
(* Shutdown.                                                               *)
(***************************************************************************)
\* the process ends after a signal that arrived while a tick was in flight
ExitsInFlight == main = "exiting" /\ main' = "exited"

\* C14: a SIGINT or SIGTERM received while a tick is in flight leads to the
\* statistics being saved before the process exits: the restarts counted in that
\* tick are in the file when the process has ended.
C14_SavedOnShutdown ==
    [][ ExitsInFlight => load_stats(file').total_restarts = stats'.total_restarts ]_vars

(***************************************************************************)
(* Errors in the loop.                                                     *)
(***************************************************************************)
\* C15: an error raised inside a tick never ends the loop: the process fails only
\* at startup, and after the wait that follows an error the loop starts its next
\* pass, unless a shutdown signal ends the process first.
C15_LoopSurvivesErrors ==
    /\ [](main = "failed" => init_error(config_file) # None)
    /\ \A n \in 0..(MaxTicks - 1) :
           (main = "cooldown" /\ ticks = n) ~> (ticks = n + 1 \/ main = "exited")

\* a second pass of the loop has been started after the first one ended in an error
C15_Witness ==
    /\ main = "cooldown"
    /\ ticks = 2
    /\ stats.total_checks = 0

(***************************************************************************)
(* The end of a tick.                                                      *)
(***************************************************************************)
\* a pass of the loop starts
StartsTick == ticks' = ticks + 1

\* the main thread goes from the wait for the workers to the sleep between ticks
EndsTick == main = "waiting" /\ main' = "sleeping"

\* C16 as claimed: every tick increments total_checks exactly once, as its first
\* step, before any account is evaluated.
C16_CountedFirst ==
    [][ /\ StartsTick => stats'.total_checks = stats.total_checks + 1
        /\ (~StartsTick /\ ~Restarts) => stats'.total_checks = stats.total_checks ]_vars

\* C16 as amended: total_checks is incremented at most once per tick, by exactly 1,
\* and only at the end of the tick, after every account evaluation has finished; a
\* tick that reaches its end is counted, a tick in flight is not counted yet.
C16_CountedAtEnd ==
    [][ /\ (~Restarts /\ stats'.total_checks # stats.total_checks) =>
               /\ EndsTick
               /\ \A a \in Accounts : Finished(a)
        /\ EndsTick => stats'.total_checks = stats.total_checks + 1
        /\ stats'.total_checks <= ticks'
        /\ main' \in {"waiting", "exiting"} => stats'.total_checks < ticks' ]_vars

\* two ticks of two accounts have been counted
C16_Witness ==
    /\ config = TwoAccounts
    /\ main = "sleeping"
    /\ ticks = 2
    /\ stats.total_checks = 2

\* C17: at the end of a tick, after all account evaluations have finished and
\* before the sleep, last_check is set and the statistics are saved: unless the
\* write fails, the file then holds exactly the in-memory statistics, with every
\* restart counted in that tick.
C17_SavedAtEndOfTick ==
    [][ /\ LeavesTick => EndsTick
        /\ EndsTick =>
            /\ \A a \in Accounts : Finished(a)
            /\ stats'.last_check = ticks
            /\ stats'.total_restarts = stats.total_restarts
            /\ file' \in {File("ok", stats'), file, File("corrupt", FreshStats)}
            /\ (file'.kind = "ok" /\ file' # file) => file'.stats = stats' ]_vars

\* the tick is over, a restart was counted in it and the file holds the statistics
C17_Witness ==
    /\ main = "sleeping"
    /\ stats.total_restarts > tr0
    /\ stats.last_check = ticks
    /\ file = File("ok", stats)

\* the step that leaves the tick did not write the new statistics to the file
SaveFails == LeavesTick /\ file' # File("ok", stats')

\* C18: a failed write of the statistics file does not stop the process or the
\* loop: the tick still ends in the sleep before the next tick, its counters stay
\* in memory, and no later step of the process takes total_checks back.
C18_SaveFailureTolerated ==
    [][ /\ SaveFails =>
            /\ main' = "sleeping"
            /\ stats'.total_checks = stats.total_checks + 1
            /\ stats'.total_restarts = stats.total_restarts
        /\ ~Restarts => stats'.total_checks >= stats.total_checks
        /\ (main = "sleeping" /\ main' # "sleeping") => main' \in {"loop", "exited"} ]_vars

\* the second tick has been counted in memory although no write has succeeded
C18_Witness ==
    /\ main = "sleeping"
    /\ ticks = 2
    /\ stats.total_checks = 2
    /\ file.kind # "ok"

(***************************************************************************)
(* Startup.                                                                *)
(***************************************************************************)
\* C19: if account.json is missing, unparsable or structurally incomplete, the
\* process has exited with a non-zero code and no pass of the monitoring loop is
\* ever started.
C19_InvalidConfigFatal ==
    config_file # "complete" => (main = "failed" /\ ticks = 0)

\* the part that holds: a missing or unparsable file, JSON that is not an object
\* and an account without name, api_key or api_secret end the process at startup
C19_FatalKinds ==
    init_error(config_file) # None =>
        (main = "failed" /\ ticks = 0 /\ \A a \in Accounts : wpc[a] = "idle")

(***************************************************************************)
(* The requests of get_devices.                                            *)
(***************************************************************************)
\* the request met the status 405
MethodNotAllowed(c) == c.op \in {"POST", "GET"} /\ c.arg[1] = "405"

\* what the three requests give is what get_devices gives for their outcomes
ApiStepsAgree ==
    (wpc[1] = "returned" /\ calls[1] # <<>> /\ calls[1][1].op = "POST") =>
        api[1] \in GetDevicesResults(config[1])

\* C20: a second request, with the other verb, is made if and only if the first
\* one met 405, and at most once; after any other failure of the first request
\* no further request is issued and the failure is returned.
C20_RetryOnlyOn405 ==
    LET log == calls[1]
    IN  /\ Len(log) <= 2
        /\ Len(log) >= 2 => (MethodNotAllowed(log[1]) /\ log[2].op = "GET")
        /\ (wpc[1] = "returned" /\ MethodNotAllowed(log[1])) => Len(log) = 2
        /\ (Len(log) >= 1 /\ ~log[1].ok /\ ~MethodNotAllowed(log[1])) =>
               (wpc[1] = "returned" /\ api[1] = NoneResponse)

(***************************************************************************)
(* Transport status and application status.                                *)
(***************************************************************************)
\* the answer of a logged request is transport-OK and its 'code' says success
AppSuccess(c) == c.arg[1] = "200" /\ c.arg[2] = Success

\* C21: a control-plane call is reported as successful to its caller if and only
\* if the transport status is OK and the application-level status code indicates
\* success: an application-level error on a 200 is a failure, an application
\* success on a 200 is never a failure.
C21_SuccessIffBothOk ==
    \A i \in 1..Len(calls[1]) :
        calls[1][i].op \in {"POST", "GET", "restart_device"} =>
            (calls[1][i].ok <=> AppSuccess(calls[1][i]))

(***************************************************************************)
(* Link normalisation.                                                     *)
(***************************************************************************)
\* the results of the first and of the second normalisation
Link == calls[1][1].arg
Relink == calls[1][2].arg

\* C22: link normalisation is idempotent: for every launch reference x, bare code
\* or full URL, normalize(normalize(x)) equals normalize(x).
C22_NormalizeIdempotent ==
    wpc[1] = "returned" => Relink = Link

\* a bare code was wrapped into the template and the link was normalised again
C22_Witness ==
    /\ wpc[1] = "returned"
    /\ Ref(1) = <<" ", "a", "b">>
    /\ Link = TemplateHead \o <<"a", "b">> \o TemplateTail
    /\ Relink = Link

\* the characters a URI scheme is made of (RFC 3986), among those explored
SchemeChar(c) == c \notin {" ", ":", "/"}

\* the reference begins with a URI scheme: scheme characters up to a colon
HasScheme(s) ==
    \E k \in 2..Len(s) : s[k] = ":" /\ \A j \in 1..(k - 1) : SchemeChar(s[j])

\* C23 as stated: a reference that begins with a URI scheme, whatever the scheme,
\* is returned unchanged; any other reference is an opaque code and gives the
\* template containing that code.
C23_AnySchemeUnchanged ==
    Len(calls[1]) >= 1 =>
        IF HasScheme(Ref(1)) THEN Link = Ref(1)
        ELSE Link = TemplateHead \o Ref(1) \o TemplateTail

Blank(s) == \A i \in 1..Len(s) : s[i] = " "

\* s is r without the blanks around it
Trimmed(r, s) ==
    \E i \in 0..Len(r) : \E j \in i..Len(r) :
        /\ Blank(SubSeq(r, 1, i))
        /\ Blank(SubSeq(r, j + 1, Len(r)))
        /\ s = SubSeq(r, i + 1, j)
        /\ s # <<>> => (s[1] # " " /\ s[Len(s)] # " ")

BeginsHttp(s) ==
    Len(s) >= 4 /\ s[1] = "h" /\ s[2] = "t" /\ s[3] = "t" /\ s[4] = "p"

\* C23, amended: a missing or empty reference gives None; any other reference is
\* stripped of surrounding whitespace, returned as it is when it begins with the
\* four letters http, and wrapped as a code into the template otherwise, whether
\* or not it begins with the scheme of another protocol.
C23_HttpPrefixUnchanged ==
    Len(calls[1]) >= 1 =>
        IF Ref(1) = <<>> THEN Link = <<>>
        ELSE \E i \in 0..Len(Ref(1)) : \E j \in i..Len(Ref(1)) :
                /\ Trimmed(Ref(1), SubSeq(Ref(1), i + 1, j))
                /\ Link = IF BeginsHttp(SubSeq(Ref(1), i + 1, j))
                          THEN SubSeq(Ref(1), i + 1, j)
                          ELSE TemplateHead \o SubSeq(Ref(1), i + 1, j) \o TemplateTail

\* a link of another scheme, with blanks around it, was wrapped as a code
C23_Witness ==
    /\ Len(calls[1]) >= 1
    /\ Ref(1) = <<" ", "r", "b", "x", ":", "/", "/", "1", " ">>
    /\ Link = TemplateHead \o <<"r", "b", "x", ":", "/", "/", "1">> \o TemplateTail

(***************************************************************************)
(* Matching a configured device to its record.                             *)
(***************************************************************************)
\* the positions of the records of the response that carry the device's device_id
OwnRecords(a, d) ==
    { i \in 1..Len(api[a].list) :
        /\ config[a].devices[d].device_id # None
        /\ api[a].list[i].phoneId = config[a].devices[d].device_id }

\* C24: a configured device is matched to a record by deviceId whenever some
\* record carries that deviceId, and by name only when none does: the online or
\* offline hint applied to the device is the one of its own record, so a device
\* whose own record is online is connected to, and one whose own record is
\* offline is left alone.
C24_MatchedByIdFirst ==
    \A a \in Accounts : \A d \in Devs(a) :
        LET dev == config[a].devices[d]
        IN  (wpc[a] = "done" /\ api[a].kind = "list" /\ OwnRecords(a, d) # {}
                /\ dev.device_ip # None /\ dev.apps # <<>>) =>
            /\ find_api_device(api[a].list, dev, 1) \in OwnRecords(a, d)
            /\ (\A i \in OwnRecords(a, d) : is_online(api[a].list[i]))
                   => Count(a, "connect", d, 0) = 1
            /\ (\A i \in OwnRecords(a, d) : ~is_online(api[a].list[i]))
                   => ~Touched(a, d)

(***************************************************************************)
(* The order of the calls of one account.                                  *)
(***************************************************************************)
\* C25: within one account the devices are handled one after the other in the
\* order of the configuration: every call for one device, its apps in order,
\* comes before any call for the next device, so the calls of the account form
\* one sequence ordered by device and, within a device, by app.
C25_DevicesInOrder ==
    \A a \in Accounts : \A i, j \in 1..Len(calls[a]) :
        i < j =>
            \/ calls[a][i].dev < calls[a][j].dev
            \/ calls[a][i].dev = calls[a][j].dev /\ calls[a][i].app <= calls[a][j].app

\* the worker is through: both apps of the first device were restarted, then a
\* later device was connected to
C25_Witness ==
    \E a \in Accounts : \E d, e \in Devs(a) :
        /\ wpc[a] = "done"
        /\ d < e
        /\ Count(a, "start", d, 1) = 1
        /\ Count(a, "start", d, 2) = 1
        /\ Count(a, "connect", e, 0) = 1

(***************************************************************************)
(* The pool of workers.                                                    *)
(***************************************************************************)
\* the accounts whose evaluation has been started and has not ended
InFlight == { a \in Accounts : wpc[a] \notin {"idle", "queued", "done", "raised"} }

\* the evaluation of the account starts
Starts(a) == wpc[a] \in {"idle", "queued", "done", "raised"} /\ a \in InFlight'

\* C26: in every tick each configured account is evaluated exactly once (it is
\* queued once, when the tick starts, its evaluation starts only from the queue,
\* and the tick is left only when every evaluation has ended), and at no moment
\* are more than min(number of accounts, 4) evaluations in flight.
C26_OncePerTickCapped ==
    /\ [](Cardinality(InFlight) <= Min(Len(config), PoolCap))
    /\ [][ /\ \A a \in Accounts :
                /\ Starts(a) => wpc[a] = "queued"
                /\ (wpc[a] # "queued" /\ wpc'[a] = "queued") =>
                       (StartsTick /\ wpc[a] = "idle")
           /\ StartsTick => \A a \in Accounts : wpc'[a] = "queued"
           /\ (main \in {"waiting", "exiting"} /\ main' \notin {"waiting", "exiting"}) =>
                  \A a \in Accounts : Finished(a) ]_vars

\* five accounts: four evaluations are in flight, the fifth waits in the queue
C26_Witness ==
    /\ Len(config) = 5
    /\ Cardinality(InFlight) = 4
    /\ wpc[5] = "queued"

(***************************************************************************)
(* Progress of the scheduler.                                              *)
(***************************************************************************)
\* C27: every tick eventually completes and the scheduler reaches the next tick,
\* whatever an account does: once every call returns, the main thread that waits
\* for the workers, or sleeps after the tick, is eventually back at the head of
\* the loop (or the process has been ended by a signal).
C27_TickCompletes ==
    (main \in {"waiting", "exiting", "sleeping", "cooldown"}) ~> (main \in {"loop", "exited"})

\* the second tick has completed after a tick in which a launch failed
C27_Witness ==
    /\ main = "sleeping"
    /\ ticks = 2
    /\ \E a \in Accounts : failures[a]

(***************************************************************************)
(* Errors of a single operation.                                           *)
(***************************************************************************)
\* the logged operation timed out or ended in an error
Failed(c) == c.arg[1] \in {"timeout", "error", "401", "405", "500"}

\* C28: a timeout or an error in a DeviceController operation (connect, check,
\* force-stop, launch) or in a control-plane call becomes a failure value (False,
\* None) returned to the caller; no exception leaves the operation.
C28_ErrorsBecomeValues ==
    /\ wpc[1] # "raised"
    /\ \A i \in 1..Len(calls[1]) : Failed(calls[1][i]) => ~calls[1][i].ok
    /\ ( /\ wpc[1] = "returned"
         /\ calls[1] # <<>>
         /\ calls[1][1].op \in {"POST", "GET", "detail"}
         /\ \A i \in 1..Len(calls[1]) : Failed(calls[1][i]) ) => api[1] = NoneResponse

\* a force-stop that timed out has returned False
C28_Witness ==
    /\ wpc[1] = "returned"
    /\ calls[1] = << Call("kill", 1, 1, <<"timeout">>, FALSE) >>

(***************************************************************************)
(* Signed requests.                                                        *)
(***************************************************************************)
\* the requests of the log that go to the control-plane API
ApiRequests == { i \in 1..Len(calls[1]) : calls[1][i].op \in {"POST", "GET", "detail", "restart_device"} }

\* the request as it was sent
Sent(i) == calls[1][i].arg[3]

\* what the signature in the Authorization header was computed over
SignedRequest(h) == h["authorization"].signature.msg.request.sha256

\* the header names the API expects, in lower case as HTTP compares them
RequiredHeaders == {"content-type", "host", "x-content-sha256", "x-date", "authorization"}

\* C29: every request sent to the control-plane API carries Content-Type, Host,
\* X-Content-Sha256, X-Date and Authorization; the X-Date and X-Content-Sha256
\* sent are the timestamp and the body digest that were signed; and every HTTP
\* attempt, a fallback attempt included, is signed with the time of that attempt.
C29_SignedHeadersSent ==
    \A i \in ApiRequests :
        /\ RequiredHeaders \subseteq DOMAIN Sent(i).headers
        /\ Sent(i).headers["x-date"] = SignedRequest(Sent(i).headers).x_date
        /\ Sent(i).headers["x-content-sha256"] = SignedRequest(Sent(i).headers).x_content_sha256
        /\ Sent(i).headers["x-content-sha256"] = Sha256(Sent(i).body)
        /\ Sent(i).headers["x-date"] = Sent(i).at

\* the part that holds: the requests of vsphone_monitor.py carry the five headers
\* with the signed values, each attempt with the time it is made at
C29_MonitorRequestsSigned ==
    \A i \in ApiRequests :
        calls[1][i].op # "restart_device" =>
            /\ RequiredHeaders \subseteq DOMAIN Sent(i).headers
            /\ Sent(i).headers["x-date"] = SignedRequest(Sent(i).headers).x_date
            /\ Sent(i).headers["x-content-sha256"] = SignedRequest(Sent(i).headers).x_content_sha256
            /\ Sent(i).headers["x-content-sha256"] = Sha256(Sent(i).body)
            /\ Sent(i).headers["x-date"] = Sent(i).at

(***************************************************************************)
(* The restart cycle of one app.                                           *)
(***************************************************************************)
\* the calls made for the app, in order
Cycle == calls[1]

\* the operations of the calls made for the app, in order
CycleOps == [i \in 1..Len(Cycle) |-> Cycle[i].op]

\* C31: a check that fails (timeout or error) is reported as not running, and a
\* force-stop and a launch are issued whenever the check does not positively
\* report the process, not only when the app is known to be down; a check that
\* reports the process is followed by no call.
C31_FailedCheckRestarts ==
    wpc[1] = "returned" =>
        /\ Cycle[1].op = "check"
        /\ Cycle[1].arg[1] \in {"timeout", "error"} => ~Cycle[1].ok
        /\ Cycle[1].arg[1] # "listed" => CycleOps = <<"check", "kill", "sleep", "start">>
        /\ Cycle[1].arg[1] = "listed" => CycleOps = <<"check">>

\* the check timed out, the app was stopped and launched
C31_Witness ==
    /\ wpc[1] = "returned"
    /\ Cycle[1] = Call("check", 1, 1, <<"timeout">>, FALSE)
    /\ CycleOps = <<"check", "kill", "sleep", "start">>
    /\ Cycle[4].ok

\* C32: in a restart cycle the result of the force-stop is ignored: after the stop
\* call has returned, with success, failure or an error, the delay elapses and the
\* launch is attempted exactly once, and the launch result alone decides whether
\* the cycle succeeded and the restart is counted.
C32_KillResultIgnored ==
    /\ wpc[1] = "cycle_sleep" => Cycle[Len(Cycle)].op = "kill"
    /\ (wpc[1] = "returned" /\ \E i \in 1..Len(Cycle) : Cycle[i].op = "kill") =>
           /\ CycleOps = <<"check", "kill", "sleep", "start">>
           /\ Cycle[3].arg = <<restart_delay>>
           /\ stats.total_restarts = IF Cycle[4].ok THEN 1 ELSE 0
    /\ wpc[1] # "returned" => stats.total_restarts = 0

\* the force-stop timed out, the launch succeeded and the restart was counted
C32_Witness ==
    /\ wpc[1] = "returned"
    /\ Len(Cycle) = 4
    /\ Cycle[2] = Call("kill", 1, 1, <<"timeout">>, FALSE)
    /\ Cycle[4].ok
    /\ stats.total_restarts = 1

(***************************************************************************)
(* Ticks of every accepted configuration.                                  *)
(***************************************************************************)
\* C33: for every configuration accepted at startup, one with zero accounts
\* included, every tick completes normally: a pass of the loop that starts goes on
\* to the evaluation of the accounts, and ends in the sleep between ticks with
\* total_checks advanced by one; the loop is never in the cool-down after an error.
C33_EveryTickCompletes ==
    /\ [](init_error(config_file) = None => main # "cooldown")
    /\ [][ /\ StartsTick => main' = "waiting"
           /\ LeavesTick =>
                  (main' = "sleeping" /\ stats'.total_checks = stats.total_checks + 1) ]_vars

(***************************************************************************)
(* The statistics loaded at startup.                                       *)
(***************************************************************************)
\* C34: whatever the statistics file holds at startup (nothing, text that cannot
\* be parsed, or JSON that is not a complete record), the statistics held after
\* the load have numeric total_checks and total_restarts, so the updates of the
\* counters never fail: no worker dies on its increment and no tick ends in the
\* cool-down after an error.
C34_LoadedStatsComplete ==
    /\ main # "cooldown"
    /\ \A a \in Accounts : wpc[a] = "raised" => ApiRaises(api[a], config[a].devices)
    /\ stats.total_checks >= 0
    /\ stats.total_restarts >= 0

(***************************************************************************)
(* Incomplete app entries.                                                 *)
(***************************************************************************)
\* the app entry has no package or no roblox_url / share_code
Incomplete(app) == app.package = None \/ app.url_or_code = <<>>

\* some call of this tick addresses the app
TouchedApp(a, d, ap) ==
    \E i \in 1..Len(calls[a]) : calls[a][i].dev = d /\ calls[a][i].app = ap

\* C35: an app entry that lacks the package or the launch reference is skipped: no
\* check, force-stop or launch is issued for it and the worker never counts a
\* restart for it, and the other apps of the device are still checked in the tick.
C35_IncompleteAppSkipped ==
    \A a \in Accounts : \A d \in Devs(a) : \A ap \in Apps(a, d) :
        LET app == config[a].devices[d].apps[ap]
        IN  /\ Incomplete(app) =>
                   (~TouchedApp(a, d, ap) /\ ~(wpc[a] \in {"incr", "store"} /\ ai[a] = ap))
            /\ ( /\ ~Incomplete(app)
                 /\ wpc[a] = "done"
                 /\ \E i \in 1..Len(calls[a]) :
                        calls[a][i] = Call("connect", d, 0, <<>>, TRUE) )
                   => Count(a, "check", d, ap) = 1

\* two incomplete entries were passed over and the third app was restarted
C35_Witness ==
    /\ config = SkippedApps
    /\ wpc[1] = "done"
    /\ Incomplete(config[1].devices[1].apps[1])
    /\ Incomplete(config[1].devices[1].apps[2])
    /\ Count(1, "start", 1, 3) = 1
    /\ ~TouchedApp(1, 1, 1)
    /\ ~TouchedApp(1, 1, 2)

(***************************************************************************)
(* Devices the response does not list.                                     *)
(***************************************************************************)
\* the record carries the device's device_id or its device_name
Names(r, dev) ==
    \/ dev.device_id # None /\ r.phoneId = dev.device_id
    \/ dev.device_name # None /\ r.phoneName = dev.device_name

\* get_devices gave a list and none of its records is about the device
Unlisted(a, d) ==
    /\ api[a].kind = "list"
    /\ \A i \in 1..Len(api[a].list) : ~Names(api[a].list[i], config[a].devices[d])

\* C36: when the list of devices was obtained but none of its records matches a
\* configured device, by id or by name, the device is not skipped: it is connected
\* to and, once connected, each of its apps is checked in the tick, as when no
\* list is available; a device is left alone only when a record about it says it
\* is not online.
C36_UnlistedStillChecked ==
    \A a \in Accounts : \A d \in Devs(a) :
        LET dev == config[a].devices[d]
        IN  (wpc[a] = "done" /\ dev.device_ip # None /\ dev.apps # <<>>) =>
            /\ Unlisted(a, d) =>
                   /\ Count(a, "connect", d, 0) = 1
                   /\ (\E i \in 1..Len(calls[a]) : calls[a][i] = Call("connect", d, 0, <<>>, TRUE))
                          => \A ap \in Apps(a, d) : Count(a, "check", d, ap) = 1
            /\ ~Touched(a, d) =>
                   /\ api[a].kind = "list"
                   /\ \E i \in 1..Len(api[a].list) :
                          /\ Names(api[a].list[i], dev)
                          /\ api[a].list[i].online # 1
                          /\ api[a].list[i].status # "online"

\* the list holds a record of another device only; the device it does not list
\* was connected to and its app was checked
C36_Witness ==
    \E a \in Accounts : \E d \in Devs(a) :
        /\ wpc[a] = "done"
        /\ api[a].kind = "list"
        /\ api[a].list # <<>>
        /\ Unlisted(a, d)
        /\ Count(a, "connect", d, 0) = 1
        /\ Count(a, "check", d, 1) = 1

====
